---- MODULE Spec2Model ----
(***************************************************************************)
(* Model of synthetic_generator.py: the device registry, the metric model, *)
(* the sample generator (simulate_data), the per-device delivery loop      *)
(* (publish_loop) and the main thread that starts one daemon thread per    *)
(* device and stops on KeyboardInterrupt.                                  *)
(*                                                                         *)
(* Strings the code inspects (device ids) are sequences of one-character   *)
(* strings.  Numeric metrics are exact rationals: an integer numerator     *)
(* over the fixed denominator Den.  The timestamp field of the payload (a  *)
(* wall-clock read) is left out; the JSON text handed to the transport is  *)
(* represented by the payload's fields.                                    *)
(***************************************************************************)
EXTENDS Integers, Sequences, FiniteSets, TLC

\* ------------------------------------------------------------- bounds
\* Most devices a run of the delivery loops is started with.
MaxDevices == 2
\* Most records all the device loops of one run generate together.
MaxRecords == 2
\* The same cap for each of the two runs compared in SpecPair.
MaxPairRecords == 2
\* Largest configured count of one category in SpecRegistry.
MaxCount == 7
\* Largest seed of the runs without variance in SpecCalm.
MaxCalmSeed == 3

\* ------------------------------------------------------------ helpers
Min(a, b) == IF a < b THEN a ELSE b

Max(a, b) == IF a > b THEN a ELSE b

\* Python's range(n) as a sequence: 0, 1, ..., n-1 (empty when n <= 0).
Range(n) == IF n > 0 THEN [k \in 1..n |-> k - 1] ELSE << >>

\* The list without the slice.
NoSlice(lst, n) == lst

\* Python's lst[:n]: the first n elements, or all but the last -n when n < 0.
Slice(lst, n) ==
  IF n >= 0 THEN SubSeq(lst, 1, Min(n, Len(lst)))
            ELSE SubSeq(lst, 1, Max(0, Len(lst) + n))

\* Python's "sub in s" on strings.
Contains(sub, s) ==
  \E k \in 0..(Len(s) - Len(sub)) : SubSeq(s, k + 1, k + Len(sub)) = sub

DigitChars == <<"0", "1", "2", "3", "4", "5", "6", "7", "8", "9">>

\* str(n) for n >= 0: the decimal digits, most significant first.
Decimal(n) ==
  LET digits[m \in Nat] ==
        IF m < 10 THEN <<DigitChars[m + 1]>>
                  ELSE digits[m \div 10] \o <<DigitChars[(m % 10) + 1]>>
  IN  digits[n]

\* The format spec {i:03d}: decimal digits, zero-padded to width 3.
Format03d(i) ==
  LET s == Decimal(i)
  IN  IF Len(s) >= 3 THEN s ELSE [k \in 1..(3 - Len(s)) |-> "0"] \o s

\* ----------------------------------------------------- device registry
VehicleTokens ==
  << <<"h","a","u","l","_","t","r","u","c","k">>,
     <<"l","o","a","d","e","r">>,
     <<"e","x","c","a","v","a","t","o","r">> >>

FixedTokens ==
  << <<"f","a","n">>,
     <<"v","e","n","t","_","s","y","s","t","e","m">>,
     <<"c","o","n","v","e","y","o","r">> >>

EnvTokens ==
  << <<"c","o","_","c","o","2">>,
     <<"m","e","t","h","a","n","e">>,
     <<"d","u","s","t">>,
     <<"t","e","m","p","_","h","u","m">>,
     <<"g","r","o","u","n","d","_","s","t","a","b">> >>

EnvPrefix == <<"e","n","v","_">>

PersonnelPrefix == <<"p","e","r","s","o","n","n","e","l","_">>

\* [f"{prefix}{typ}_{i:03d}" for typ in toks for i in range(per)]
Comprehension(prefix, toks, per) ==
  IF per <= 0 THEN << >>
  ELSE [j \in 1..(Len(toks) * per) |->
          prefix \o toks[((j - 1) \div per) + 1] \o <<"_">>
                 \o Format03d((j - 1) % per)]

vehicles(cfg) ==
  Slice(Comprehension(<< >>, VehicleTokens, (cfg.num_vehicles \div 3) + 1),
        cfg.num_vehicles)

fixed_assets(cfg) ==
  Slice(Comprehension(<< >>, FixedTokens, (cfg.num_fixed_assets \div 3) + 1),
        cfg.num_fixed_assets)

env_sensors(cfg) ==
  Slice(Comprehension(EnvPrefix, EnvTokens, (cfg.num_env_sensors \div 5) + 1),
        cfg.num_env_sensors)

personnel(cfg) ==
  LET r == Range(cfg.num_personnel)
  IN  [j \in 1..Len(r) |-> PersonnelPrefix \o Format03d(r[j])]

\* all_devices = vehicles + fixed_assets + env_sensors + personnel
AllDevices(cfg) ==
  vehicles(cfg) \o fixed_assets(cfg) \o env_sensors(cfg) \o personnel(cfg)

\* -------------------------------------------------------- metric model
\* Numeric bounds are in tenths (37.7 is 377).  The entries of one type are
\* in the dict's insertion order, the order simulate_data iterates them in.
Rng(lo, hi) == [kind |-> "range", lo |-> lo, hi |-> hi]

Grp(fields) == [kind |-> "group", fields |-> fields]

Opt(options) == [kind |-> "choice", options |-> options]

None == "None"

metric_ranges(typ) ==
  CASE typ = "vehicle" ->
         << [key |-> "gps",
             rule |-> Grp(<< [key |-> "lat", lo |-> 377, hi |-> 378],
                             [key |-> "lon", lo |-> -1225, hi |-> -1224] >>)],
            [key |-> "speed", rule |-> Rng(0, 500)],
            [key |-> "engine_temp", rule |-> Rng(600, 900)],
            [key |-> "vibration", rule |-> Rng(5, 20)],
            [key |-> "fuel_level", rule |-> Rng(200, 1000)] >>
    [] typ = "fixed" ->
         << [key |-> "vibration", rule |-> Rng(1, 10)],
            [key |-> "motor_temp", rule |-> Rng(400, 700)],
            [key |-> "operational_status",
             rule |-> Opt(<<"running", "idle", "stopped">>)],
            [key |-> "airflow_rate", rule |-> Rng(1000, 5000)],
            [key |-> "power_consumption", rule |-> Rng(5000, 20000)] >>
    [] typ = "env" ->
         << [key |-> "co_co2", rule |-> Rng(0, 500)],
            [key |-> "methane", rule |-> Rng(0, 50)],
            [key |-> "dust", rule |-> Rng(0, 1000)],
            [key |-> "temp_hum",
             rule |-> Grp(<< [key |-> "temp", lo |-> 100, hi |-> 300],
                             [key |-> "hum", lo |-> 400, hi |-> 800] >>)],
            [key |-> "ground_vib", rule |-> Rng(0, 10)] >>
    [] typ = "personnel" ->
         << [key |-> "co_level", rule |-> Rng(0, 500)],
            [key |-> "proximity_alert", rule |-> Opt(<<FALSE, TRUE>>)],
            [key |-> "heart_rate", rule |-> Rng(600, 1000)],
            [key |-> "location",
             rule |-> Grp(<< [key |-> "x", lo |-> 0, hi |-> 10000],
                             [key |-> "y", lo |-> 0, hi |-> 10000] >>)],
            [key |-> "fall_detection", rule |-> Opt(<<FALSE, TRUE>>)] >>

\* A type lookup without the test for 'vent'.
get_device_type_no_vent(device_id) ==
  IF Contains(<<"t","r","u","c","k">>, device_id)
     \/ Contains(<<"l","o","a","d","e","r">>, device_id)
     \/ Contains(<<"e","x","c","a","v","a","t","o","r">>, device_id)
  THEN "vehicle"
  ELSE IF Contains(<<"f","a","n">>, device_id)
          \/ Contains(<<"c","o","n","v","e","y","o","r">>, device_id)
  THEN "fixed"
  ELSE IF Contains(<<"e","n","v">>, device_id) THEN "env"
  ELSE IF Contains(<<"p","e","r","s","o","n","n","e","l">>, device_id)
  THEN "personnel"
  ELSE None

get_device_type(device_id) ==
  IF Contains(<<"t","r","u","c","k">>, device_id)
     \/ Contains(<<"l","o","a","d","e","r">>, device_id)
     \/ Contains(<<"e","x","c","a","v","a","t","o","r">>, device_id)
  THEN "vehicle"
  ELSE IF Contains(<<"f","a","n">>, device_id)
          \/ Contains(<<"v","e","n","t">>, device_id)
          \/ Contains(<<"c","o","n","v","e","y","o","r">>, device_id)
  THEN "fixed"
  ELSE IF Contains(<<"e","n","v">>, device_id) THEN "env"
  ELSE IF Contains(<<"p","e","r","s","o","n","n","e","l">>, device_id)
  THEN "personnel"
  ELSE None

\* ------------------------------------------- the global random generator
\* The module-level generator of "random" is one state shared by every
\* thread: a seeded deterministic generator of words.  Here it is a counter
\* generator on 8 bits (a fixed odd step, then a mixing of the state) giving
\* 5-bit words.  As in CPython, random() is built from the top bits of two
\* successive words and getrandbits(k) from the top k bits of one word.
\* A call reads the words after a generator state s by position: its cursor
\* c counts the words the call has drawn so far, and a result is
\* [val |-> the value, c |-> the cursor after it].
WordBits == 5

\* random.seed(seed)
Seed(seed) == seed % 256

\* The generator state once j more words are drawn from state s.
Advance(s, j) == (s + 13 * j) % 256

\* The j-th word drawn from state s, j >= 1.
Word(s, j) == (((Advance(s, j) + 1) * 3) % 257) % 32

\* The first n words drawn from state s.
Words(s, n) == [j \in 1..n |-> Word(s, j)]

\* random.random() at cursor c: v in 0..15 standing for v/16 in [0, 1).
RandomAt(s, c) == (Word(s, c + 1) \div 8) * 4 + (Word(s, c + 2) \div 8)

\* n.bit_length()
BitLength(n) == CHOOSE k \in 0..WordBits : 2^k > n /\ (k = 0 \/ 2^(k - 1) <= n)

\* getrandbits(k), k <= WordBits, read from the j-th word.
GetRandBits(s, j, k) == Word(s, j) \div (2^(WordBits - k))

\* Random._randbelow(n) draws BitLength(n) bits until the value is below n:
\* the number of draws it makes at cursor c.
RandBelowDraws(s, c, n) ==
  CHOOSE j \in 1..256 :
    /\ GetRandBits(s, c + j, BitLength(n)) < n
    /\ \A i \in 1..(j - 1) : GetRandBits(s, c + i, BitLength(n)) >= n

RandBelow(s, c, n) ==
  [val |-> GetRandBits(s, c + RandBelowDraws(s, c, n), BitLength(n)),
   c   |-> c + RandBelowDraws(s, c, n)]

\* random.choice(seq)
Choice(s, c, seq) ==
  [val |-> seq[RandBelow(s, c, Len(seq)).val + 1],
   c   |-> RandBelow(s, c, Len(seq)).c]

\* random.randint(a, b)
RandInt(s, c, a, b) ==
  [val |-> a + RandBelow(s, c, b - a + 1).val,
   c   |-> RandBelow(s, c, b - a + 1).c]

\* ------------------------------------------------------ sample generator
\* A numeric metric is numerator / Den: bounds are in tenths, random() in
\* sixteenths, the jitter factor in 1/1600.
Den == 256000

\* A jitter of up to a tenth whatever the variance.
PerturbedByTenth(s, c, lo, hi, variance) ==
  [val |-> (lo * 16 + (hi - lo) * RandomAt(s, c))
           * (1600 + 10 * (2 * RandomAt(s, c + 2) - 16)),
   c   |-> c + 4]

\* random.uniform(lo, hi) * (1 + random.uniform(-variance, variance)), the
\* variance in percent: two calls of random().
Perturbed(s, c, lo, hi, variance) ==
  [val |-> (lo * 16 + (hi - lo) * RandomAt(s, c))
           * (1600 + variance * (2 * RandomAt(s, c + 2) - 16)),
   c   |-> c + 4]

\* The dict comprehension over the fields of a nested rule (line 138):
\* field i is drawn after the i - 1 fields before it.
EvalGroup(s, c, fields, variance) ==
  LET at[i \in 1..(Len(fields) + 1)] ==
        IF i = 1 THEN c
        ELSE Perturbed(s, at[i - 1], fields[i - 1].lo, fields[i - 1].hi,
                       variance).c
  IN  [val |-> [key \in {fields[i].key : i \in 1..Len(fields)} |->
                  LET i == CHOOSE i \in 1..Len(fields) : fields[i].key = key
                  IN  Perturbed(s, at[i], fields[i].lo, fields[i].hi,
                                variance).val],
       c   |-> at[Len(fields) + 1]]

\* One metric rule: nested, categorical or boolean, numeric (lines 137-144).
EvalRule(s, c, rule, variance) ==
  CASE rule.kind = "group" -> EvalGroup(s, c, rule.fields, variance)
    [] rule.kind = "choice" -> Choice(s, c, rule.options)
    [] rule.kind = "range" -> Perturbed(s, c, rule.lo, rule.hi, variance)

\* The loop "for key, val in ranges.items()" (line 136): entry i is
\* evaluated at the cursor the entries before it leave; done[i] is its value
\* and the cursor it leaves.  (The set constructor binds the cursor before
\* the rule is evaluated, so that it is computed once.)
EvalRules(s, ranges, variance) ==
  LET done[i \in 1..Len(ranges)] ==
        CHOOSE res \in {EvalRule(s, c, ranges[i].rule, variance) :
                          c \in {IF i = 1 THEN 0 ELSE done[i - 1].c}} : TRUE
  IN  [val |-> [key \in {ranges[i].key : i \in 1..Len(ranges)} |->
                  LET i == CHOOSE i \in 1..Len(ranges) : ranges[i].key = key
                  IN  done[i].val],
       c   |-> done[Len(ranges)].c]

FaultOffsetEngineTemp == 50

FaultOffsetMethane == 10

\* A fault branch that marks every faulted record as an overheated vehicle
\* and leaves its metrics alone.
MarkOverheat(typ, metrics) ==
  [metrics |-> metrics, status |-> "fault_overheat"]

\* The fault branch (lines 148-159): the mutation keyed by the device type.
InjectFault(typ, metrics) ==
  CASE typ = "vehicle" ->
         [metrics |-> [metrics EXCEPT
                         !["engine_temp"] = @ + FaultOffsetEngineTemp * Den],
          status |-> "fault_overheat"]
    [] typ = "fixed" ->
         [metrics |-> [metrics EXCEPT !["operational_status"] = "jammed"],
          status |-> "fault_jam"]
    [] typ = "env" ->
         [metrics |-> [metrics EXCEPT
                         !["methane"] = @ + FaultOffsetMethane * Den],
          status |-> "fault_gas"]
    [] typ = "personnel" ->
         [metrics |-> [metrics EXCEPT !["fall_detection"] = TRUE],
          status |-> "fault_fall"]
    [] OTHER -> [metrics |-> metrics, status |-> "normal"]

\* A fault decision that does not look at the mode.
FaultDecisionAnyMode(s, c, mode) ==
  [val |-> RandomAt(s, c) * 10 < 2 * 16, c |-> c + 2]

\* "mode == 'fault' and random.random() < 0.2" (line 147): random() is
\* called only in fault mode.
FaultDecision(s, c, mode) ==
  IF mode = "fault" THEN [val |-> RandomAt(s, c) * 10 < 2 * 16, c |-> c + 2]
                    ELSE [val |-> FALSE, c |-> c]

\* simulate_data(device_id, mode) called with the generator in state s: the
\* payload, the metrics as evaluated before the fault branch (raw), the
\* generator state after the call and the words the call drew (log).
simulate_data(s, device_id, mode, variance) ==
  LET typ == get_device_type(device_id)
      Rest(m) ==
        LET f   == FaultDecision(s, m.c, mode)
            out == IF f.val THEN InjectFault(typ, m.val)
                            ELSE [metrics |-> m.val, status |-> "normal"]
        IN  [s |-> Advance(s, f.c), log |-> Words(s, f.c), raw |-> m.val,
             payload |-> [device_id |-> device_id, type |-> typ,
                          metrics |-> out.metrics, status |-> out.status]]
  IN  CHOOSE res \in {Rest(m) : m \in {EvalRules(s, metric_ranges(typ),
                                                 variance)}} : TRUE

\* ------------------------------------------------------------- state
\* Two runs of the program are kept side by side (Runs): Spec moves run 1
\* only; SpecPair moves both, from the same configuration and seed.
Runs == {1, 2}

VARIABLES
  file,         \* the config file args.config names, as load_config finds it
  config,       \* the configuration load_config returned (line 46)
  connection,   \* what the MQTT client was set up with and connected to
  all_devices,  \* per run: the registry list (line 82)
  mainpc,       \* per run: where the main thread is
  started,      \* per run: how many device threads the loop at 192 started
  client_loop,  \* per run: whether the MQTT client's network loop runs
  rng,          \* per run: the state of the global random generator
  pc,           \* per run and thread: where publish_loop is
  data,         \* per run and thread: the local "data"
  buffer,       \* per run and thread: the local "buffer"
  flushed,      \* per run and thread: items the loop at 181 has published
  published,    \* per run: topic -> the publish calls the client received
  generated,    \* history, per thread: the payloads simulate_data returned
  raw,          \* history, per thread: the latest metrics before the fault branch
  draws,        \* history, per thread: the generator words the thread consumed
  waits         \* history, per thread: the sleeps since its latest simulate_data

vars == <<file, config, connection, all_devices, mainpc, started, client_loop, rng, pc, data,
          buffer, flushed, published, generated, raw, draws, waits>>

threadVars == <<pc, data, buffer, flushed, generated, raw, draws, waits>>

mainVars == <<all_devices, mainpc, started, client_loop>>

Modes == {"normal", "fault", "intermittent"}

\* The variance in percent: the default 0.1.
Variances == {10}

Seeds == {42}

Threads(r) == 1..Len(all_devices[r])

NoData == [device_id |-> << >>, type |-> None, metrics |-> << >>, status |-> None]

\* One topic for every device.
BareTopic(device_id) == <<"mining/", << >> >>

Topic(device_id) == <<"mining/", device_id>>

\* A client that puts the latest call first on its topic.
ClientPublishFirst(pub, topic, payload, qos) ==
  IF topic \in DOMAIN pub
  THEN [pub EXCEPT ![topic] = <<[payload |-> payload, qos |-> qos]>> \o @]
  ELSE pub @@ (topic :> <<[payload |-> payload, qos |-> qos]>>)

\* A client that loses the call.
ClientDrop(pub, topic, payload, qos) == pub

\* client.publish(topic, payload, qos): the call as the client receives it.
ClientPublish(pub, topic, payload, qos) ==
  LET call == [payload |-> payload, qos |-> qos]
  IN  IF topic \in DOMAIN pub
      THEN [pub EXCEPT ![topic] = Append(@, call)]
      ELSE pub @@ (topic :> <<call>>)

\* The records the loops of run r have generated together.
TotalGenerated(r) ==
  Cardinality(UNION {{k} \X (1..Len(generated[r][k])) : k \in Threads(r)})

\* Threads that outlive the process.
Undying(r) == TRUE

\* A daemon thread runs until the process has exited.  (A thread action of
\* thread k also requires k to be one of the threads of the run.)
Alive(r) == mainpc[r] # "exited"

Interrupted(r) == mainpc[r] \in {"handler", "exiting", "exited"}

\* default_config (lines 18-33) with the counts, the mode, the variance and
\* the seed a file supplies.
Config(nv, nf, ne, np, mode, variance, seed) ==
  [num_vehicles |-> nv, num_fixed_assets |-> nf, num_env_sensors |-> ne,
   num_personnel |-> np, frequency |-> 10, variance |-> variance,
   seed |-> seed, mode |-> mode, broker |-> "localhost", port |-> 1883,
   aws_endpoint |-> None, cert |-> None, key |-> None, ca |-> None]

\* default_config as written at lines 18-33 (the variance 0.1 in percent).
DefaultConfig == Config(5, 10, 20, 15, "normal", 10, 42)

\* A config file is missing, empty (no bytes), or holds a JSON object.
MissingFile == [kind |-> "missing", obj |-> << >>]

EmptyFile == [kind |-> "empty", obj |-> << >>]

JsonFile(obj) == [kind |-> "json", obj |-> obj]

\* The object that supplies the keys of opts whose option is <<value>> and
\* leaves out those whose option is << >>.
Supplied(opts) ==
  [key \in {k \in DOMAIN opts : opts[k] # << >>} |-> opts[key][1]]

\* load_config(config_file), lines 16-43: open() raises FileNotFoundError for
\* a missing file, which is caught; json.load raises JSONDecodeError for a
\* file without a JSON document, which is not; default_config.update(config)
\* overwrites the keys the object has.
load_config(f) ==
  CASE f.kind = "missing" -> [raised |-> None, config |-> DefaultConfig]
    [] f.kind = "empty" -> [raised |-> "JSONDecodeError", config |-> << >>]
    [] f.kind = "json" ->
         [raised |-> None,
          config |-> [key \in DOMAIN DefaultConfig \cup DOMAIN f.obj |->
                        IF key \in DOMAIN f.obj THEN f.obj[key]
                                                ELSE DefaultConfig[key]]]

\* Python's truth value of a configured path or endpoint.
Truthy(x) == x \notin {None, ""}

NoConnection == [tls |-> FALSE, endpoint |-> None, port |-> 0]

\* Lines 56-71: the TLS check and set-up, the choice of the endpoint and
\* client.connect(endpoint, port, 60).
ConnectClient(cfg) ==
  IF cfg.broker = "aws" /\ Truthy(cfg.aws_endpoint)
  THEN IF ~(Truthy(cfg.cert) /\ Truthy(cfg.key) /\ Truthy(cfg.ca))
       THEN [raised |-> "ValueError", connection |-> NoConnection]
       ELSE [raised |-> None,
             connection |-> [tls |-> TRUE, endpoint |-> cfg.aws_endpoint,
                             port |-> 8883]]
  ELSE [raised |-> None,
        connection |-> [tls |-> FALSE, endpoint |-> cfg.broker,
                        port |-> cfg.port]]

\* The state once the configuration is loaded and validated, the generator
\* seeded (line 53) and the client connected and looping (lines 71-73).
InitWith(cfg) ==
  /\ file = JsonFile(cfg)
  /\ config = cfg
  /\ connection = ConnectClient(cfg).connection
  /\ all_devices = [r \in Runs |-> << >>]
  /\ mainpc = [r \in Runs |-> "generate_devices"]
  /\ started = [r \in Runs |-> 0]
  /\ client_loop = [r \in Runs |-> TRUE]
  /\ rng = [r \in Runs |-> Seed(cfg.seed)]
  /\ pc = [r \in Runs |-> << >>]
  /\ data = [r \in Runs |-> << >>]
  /\ buffer = [r \in Runs |-> << >>]
  /\ flushed = [r \in Runs |-> << >>]
  /\ published = [r \in Runs |-> << >>]
  /\ generated = [r \in Runs |-> << >>]
  /\ raw = [r \in Runs |-> << >>]
  /\ draws = [r \in Runs |-> << >>]
  /\ waits = [r \in Runs |-> << >>]

\* The runs of the delivery loops: at most MaxDevices devices, of which any
\* number of vehicles and at most one of each other kind.
Init ==
  \E nv \in 0..MaxDevices, nf, ne, np \in 0..1 :
    \E mode \in Modes, variance \in Variances, seed \in Seeds :
      /\ nv + nf + ne + np <= MaxDevices
      /\ InitWith(Config(nv, nf, ne, np, mode, variance, seed))

\* The registry alone: every count of every category up to MaxCount, and a
\* negative one.
InitRegistry ==
  \E nv, nf, ne, np \in (-1)..MaxCount :
    InitWith(Config(nv, nf, ne, np, "normal", 10, 42))

\* The program from its first statement: the config file is any of a few
\* files, which supply or leave out the counts, the mode, the broker, the
\* endpoint and the three TLS paths.
InitStartup ==
  /\ \E nv \in {<< >>, <<-1>>, <<2>>}, ne \in {<< >>, <<-1>>},
        np \in {<< >>, <<1>>}, mode \in {<< >>, <<"fault">>, <<"turbo">>},
        broker \in {<< >>, <<"aws">>, <<"broker.local">>},
        aws_endpoint \in {<< >>, <<"iot.example">>},
        cert, key, ca \in {<< >>, <<"path">>} :
        \/ file = JsonFile(Supplied(
                    [num_vehicles |-> nv, num_env_sensors |-> ne,
                     num_personnel |-> np, mode |-> mode, broker |-> broker,
                     aws_endpoint |-> aws_endpoint, cert |-> cert,
                     key |-> key, ca |-> ca]))
        \/ file \in {MissingFile, EmptyFile}
  /\ config = << >>
  /\ connection = NoConnection
  /\ all_devices = [r \in Runs |-> << >>]
  /\ mainpc = [r \in Runs |-> "load_config"]
  /\ started = [r \in Runs |-> 0]
  /\ client_loop = [r \in Runs |-> FALSE]
  /\ rng = [r \in Runs |-> 0]
  /\ pc = [r \in Runs |-> << >>]
  /\ data = [r \in Runs |-> << >>]
  /\ buffer = [r \in Runs |-> << >>]
  /\ flushed = [r \in Runs |-> << >>]
  /\ published = [r \in Runs |-> << >>]
  /\ generated = [r \in Runs |-> << >>]
  /\ raw = [r \in Runs |-> << >>]
  /\ draws = [r \in Runs |-> << >>]
  /\ waits = [r \in Runs |-> << >>]

\* The runs in normal mode with variance 0, from the seeds 0..MaxCalmSeed.
InitCalm ==
  \E nv \in 0..MaxDevices, nf, ne, np \in 0..1 :
    \E seed \in 0..MaxCalmSeed :
      /\ nv + nf + ne + np <= MaxDevices
      /\ InitWith(Config(nv, nf, ne, np, "normal", 0, seed))

\* A device id no branch of get_device_type matches.
ForeignId == <<"d","r","o","n","e","_","0","0","0">>

\* lst with x put in before place i.
InsertAt(lst, i, x) ==
  SubSeq(lst, 1, i - 1) \o <<x>> \o SubSeq(lst, i, Len(lst))

\* The thread start loop and the device loops driven with a list of device
\* ids that is not the registry's: the ids of a configuration with fewer
\* than MaxDevices devices and ForeignId among them.  The state is the one
\* before the loop at line 192.
InitForeign ==
  \E nv \in 0..MaxDevices, nf, ne, np \in 0..1 :
    \E mode \in Modes, variance \in Variances, seed \in Seeds :
      \E i \in 1..MaxDevices :
        /\ nv + nf + ne + np \in 1..(MaxDevices - 1)
        /\ i <= nv + nf + ne + np + 1
        /\ file = JsonFile(Config(nv, nf, ne, np, mode, variance, seed))
        /\ config = Config(nv, nf, ne, np, mode, variance, seed)
        /\ connection = ConnectClient(config).connection
        /\ all_devices = [r \in Runs |-> InsertAt(AllDevices(config), i,
                                                  ForeignId)]
        /\ mainpc = [r \in Runs |-> "start_threads"]
        /\ started = [r \in Runs |-> 0]
        /\ client_loop = [r \in Runs |-> TRUE]
        /\ rng = [r \in Runs |-> Seed(seed)]
        /\ pc = [r \in Runs |-> [k \in 1..(nv + nf + ne + np + 1) |-> "unstarted"]]
        /\ data = [r \in Runs |-> [k \in 1..(nv + nf + ne + np + 1) |-> NoData]]
        /\ buffer = [r \in Runs |-> [k \in 1..(nv + nf + ne + np + 1) |-> << >>]]
        /\ flushed = [r \in Runs |-> [k \in 1..(nv + nf + ne + np + 1) |-> 0]]
        /\ published = [r \in Runs |-> << >>]
        /\ generated = [r \in Runs |-> [k \in 1..(nv + nf + ne + np + 1) |-> << >>]]
        /\ raw = [r \in Runs |-> [k \in 1..(nv + nf + ne + np + 1) |-> << >>]]
        /\ draws = [r \in Runs |-> [k \in 1..(nv + nf + ne + np + 1) |-> << >>]]
        /\ waits = [r \in Runs |-> [k \in 1..(nv + nf + ne + np + 1) |-> << >>]]

\* ------------------------------------------------------------- start-up
\* Line 46: config = load_config(args.config); an exception it does not
\* catch ends the program.
LoadConfig(r) ==
  /\ mainpc[r] = "load_config"
  /\ config' = load_config(file).config
  /\ mainpc' = [mainpc EXCEPT ![r] =
                  IF load_config(file).raised = None THEN "validate_mode"
                                                     ELSE "failed"]
  /\ UNCHANGED <<file, connection, all_devices, started, client_loop, rng,
                 published>>
  /\ UNCHANGED threadVars

\* Lines 49-50: the mode is one of the three, or ValueError is raised.
ValidateMode(r) ==
  /\ mainpc[r] = "validate_mode"
  /\ mainpc' = [mainpc EXCEPT ![r] =
                  IF config.mode \in Modes THEN "seed" ELSE "failed"]
  /\ UNCHANGED <<file, config, connection, all_devices, started, client_loop,
                 rng, published>>
  /\ UNCHANGED threadVars

\* Line 53: random.seed(config['seed']).
SeedRandom(r) ==
  /\ mainpc[r] = "seed"
  /\ rng' = [rng EXCEPT ![r] = Seed(config.seed)]
  /\ mainpc' = [mainpc EXCEPT ![r] = "connect"]
  /\ UNCHANGED <<file, config, connection, all_devices, started, client_loop,
                 published>>
  /\ UNCHANGED threadVars

\* Lines 56-73: the client is set up and connected and its network loop
\* started, or ValueError is raised before tls_set and connect.
Connect(r) ==
  /\ mainpc[r] = "connect"
  /\ connection' = ConnectClient(config).connection
  /\ client_loop' = [client_loop EXCEPT ![r] =
                       ConnectClient(config).raised = None]
  /\ mainpc' = [mainpc EXCEPT ![r] =
                  IF ConnectClient(config).raised = None
                  THEN "generate_devices" ELSE "failed"]
  /\ UNCHANGED <<file, config, all_devices, started, rng, published>>
  /\ UNCHANGED threadVars

\* ---------------------------------------------------------- main thread
\* Lines 76-82: build the registry.
GenerateDevices(r) ==
  /\ mainpc[r] = "generate_devices"
  /\ LET devs == AllDevices(config)
         n    == Len(devs)
     IN  /\ all_devices' = [all_devices EXCEPT ![r] = devs]
         /\ pc' = [pc EXCEPT ![r] = [k \in 1..n |-> "unstarted"]]
         /\ data' = [data EXCEPT ![r] = [k \in 1..n |-> NoData]]
         /\ buffer' = [buffer EXCEPT ![r] = [k \in 1..n |-> << >>]]
         /\ flushed' = [flushed EXCEPT ![r] = [k \in 1..n |-> 0]]
         /\ generated' = [generated EXCEPT ![r] = [k \in 1..n |-> << >>]]
         /\ raw' = [raw EXCEPT ![r] = [k \in 1..n |-> << >>]]
         /\ draws' = [draws EXCEPT ![r] = [k \in 1..n |-> << >>]]
         /\ waits' = [waits EXCEPT ![r] = [k \in 1..n |-> << >>]]
  /\ mainpc' = [mainpc EXCEPT ![r] = "start_threads"]
  /\ UNCHANGED <<file, config, connection, started, client_loop, rng, published>>

\* Lines 192-196: one iteration of "for device in all_devices".
StartThread(r) ==
  /\ mainpc[r] = "start_threads"
  /\ started[r] < Len(all_devices[r])
  /\ started' = [started EXCEPT ![r] = @ + 1]
  /\ pc' = [pc EXCEPT ![r][started[r] + 1] = "simulate"]
  /\ UNCHANGED <<file, config, connection, all_devices, mainpc, client_loop, rng, data, buffer,
                 flushed, published, generated, raw, draws, waits>>

\* The for loop ends; the main thread enters "try: while True".
EnterMainLoop(r) ==
  /\ mainpc[r] = "start_threads"
  /\ started[r] = Len(all_devices[r])
  /\ mainpc' = [mainpc EXCEPT ![r] = "main_loop"]
  /\ UNCHANGED <<file, config, connection, all_devices, started, client_loop, rng, published>>
  /\ UNCHANGED threadVars

\* Lines 200-201: time.sleep(1) returns and the loop goes round.
MainSleep(r) ==
  /\ mainpc[r] = "main_loop"
  /\ UNCHANGED vars

\* KeyboardInterrupt is raised in the main thread: inside the try it is
\* caught (line 202); before the try it ends the main thread uncaught.
DeliverInterrupt(r) ==
  /\ mainpc[r] \in {"generate_devices", "start_threads", "main_loop"}
  /\ mainpc' = [mainpc EXCEPT ![r] =
                  IF mainpc[r] = "main_loop" THEN "handler" ELSE "exiting"]
  /\ UNCHANGED <<file, config, connection, all_devices, started, client_loop, rng, published>>
  /\ UNCHANGED threadVars

\* Line 204: client.loop_stop().
LoopStop(r) ==
  /\ mainpc[r] = "handler"
  /\ client_loop' = [client_loop EXCEPT ![r] = FALSE]
  /\ mainpc' = [mainpc EXCEPT ![r] = "exiting"]
  /\ UNCHANGED <<file, config, connection, all_devices, started, rng, published>>
  /\ UNCHANGED threadVars

\* The main thread has ended: the process exits and its daemon threads
\* (line 194) end with it, wherever they are.
ProcessExit(r) ==
  /\ mainpc[r] = "exiting"
  /\ mainpc' = [mainpc EXCEPT ![r] = "exited"]
  /\ UNCHANGED <<file, config, connection, all_devices, started, client_loop, rng, published>>
  /\ UNCHANGED threadVars

\* ------------------------------------------------- publish_loop (thread k)
\* The assignments of line 176, from the result of the call.
SimulateStore(r, k, res) ==
  /\ rng' = [rng EXCEPT ![r] = res.s]
  /\ data' = [data EXCEPT ![r][k] = res.payload]
  /\ raw' = [raw EXCEPT ![r][k] = res.raw]
  /\ generated' = [generated EXCEPT ![r][k] = Append(@, res.payload)]
  /\ draws' = [draws EXCEPT ![r][k] = @ \o res.log]

\* Line 176: data = simulate_data(device_id, mode), for a device id that has
\* a type.
Simulate(r, k, cap) ==
  /\ Alive(r)
  /\ k \in Threads(r)
  /\ pc[r][k] = "simulate"
  /\ get_device_type(all_devices[r][k]) # None
  /\ TotalGenerated(r) < cap
  /\ \E res \in {simulate_data(rng[r], all_devices[r][k],
                               config.mode, config.variance)} :
       SimulateStore(r, k, res)
  /\ waits' = [waits EXCEPT ![r][k] = << >>]
  /\ pc' = [pc EXCEPT ![r][k] = "decide"]
  /\ UNCHANGED <<file, config, connection, buffer, flushed, published>>
  /\ UNCHANGED mainVars

\* An uncaught exception that ends the whole process.
ExceptionEndsProcess(m) == "exited"

\* What an exception that a device thread does not catch does to the main
\* thread, at m: nothing, the thread alone ends.
ThreadException(m) == m

\* Lines 130 and 135 for a device id without a type: get_device_type
\* returns None and metric_ranges[typ] raises KeyError, which neither
\* simulate_data nor publish_loop catches.
Crash(r, k) ==
  /\ Alive(r)
  /\ k \in Threads(r)
  /\ pc[r][k] = "simulate"
  /\ get_device_type(all_devices[r][k]) = None
  /\ pc' = [pc EXCEPT ![r][k] = "crashed"]
  /\ mainpc' = [mainpc EXCEPT ![r] = ThreadException(@)]
  /\ UNCHANGED <<file, config, connection, all_devices, started, client_loop,
                 rng, data, buffer, flushed, published, generated, raw, draws,
                 waits>>

\* An outage decision that does not look at the mode.
OutageDecisionAnyMode(s, mode) ==
  [val |-> RandomAt(s, 0) * 10 < 3 * 16, c |-> 2]

\* "mode == 'intermittent' and random.random() < 0.3" (line 177): random()
\* is called only in intermittent mode.
OutageDecision(s, mode) ==
  IF mode = "intermittent" THEN [val |-> RandomAt(s, 0) * 10 < 3 * 16, c |-> 2]
                           ELSE [val |-> FALSE, c |-> 0]

\* Where the loop goes from the decision d; on an outage, buffer.append(data).
DecideStore(r, k, d) ==
  /\ rng' = [rng EXCEPT ![r] = Advance(@, d.c)]
  /\ draws' = [draws EXCEPT ![r][k] = @ \o Words(rng[r], d.c)]
  /\ buffer' = [buffer EXCEPT ![r][k] =
                  IF d.val THEN Append(@, data[r][k]) ELSE @]
  /\ pc' = [pc EXCEPT ![r][k] = IF d.val THEN "outage" ELSE "publish"]

\* Lines 177-178: the outage decision.
Decide(r, k) ==
  /\ Alive(r)
  /\ k \in Threads(r)
  /\ pc[r][k] = "decide"
  /\ DecideStore(r, k, OutageDecision(rng[r], config.mode))
  /\ UNCHANGED <<file, config, connection, data, flushed, published, generated, raw, waits>>
  /\ UNCHANGED mainVars

BeginOutageStore(r, k, d) ==
  /\ rng' = [rng EXCEPT ![r] = Advance(@, d.c)]
  /\ draws' = [draws EXCEPT ![r][k] = @ \o Words(rng[r], d.c)]
  /\ waits' = [waits EXCEPT ![r][k] =
                 Append(@, [kind |-> "outage", secs |-> d.val])]

\* Line 179: time.sleep(random.randint(10, 30)) draws the duration and
\* sleeps; the loop at line 181 is next.
BeginOutage(r, k) ==
  /\ Alive(r)
  /\ k \in Threads(r)
  /\ pc[r][k] = "outage"
  /\ BeginOutageStore(r, k, RandInt(rng[r], 0, 10, 30))
  /\ flushed' = [flushed EXCEPT ![r][k] = 0]
  /\ pc' = [pc EXCEPT ![r][k] = "flush"]
  /\ UNCHANGED <<file, config, connection, data, buffer, published, generated, raw>>
  /\ UNCHANGED mainVars

\* Line 182: one iteration of "for buffered_data in buffer".
FlushOne(r, k) ==
  /\ Alive(r)
  /\ k \in Threads(r)
  /\ pc[r][k] = "flush"
  /\ flushed[r][k] < Len(buffer[r][k])
  /\ published' = [published EXCEPT ![r] =
                     ClientPublish(@, Topic(all_devices[r][k]),
                                   buffer[r][k][flushed[r][k] + 1], 1)]
  /\ flushed' = [flushed EXCEPT ![r][k] = @ + 1]
  /\ UNCHANGED <<file, config, connection, rng, pc, data, buffer, generated, raw, draws, waits>>
  /\ UNCHANGED mainVars

\* A flush that leaves the buffer as it is.
KeepBuffer(buf) == buf

\* What line 183 leaves in the buffer.
ClearBuffer(buf) == << >>

\* Line 183: the loop is over; buffer = [].
FlushDone(r, k) ==
  /\ Alive(r)
  /\ k \in Threads(r)
  /\ pc[r][k] = "flush"
  /\ flushed[r][k] >= Len(buffer[r][k])
  /\ buffer' = [buffer EXCEPT ![r][k] = ClearBuffer(@)]
  /\ pc' = [pc EXCEPT ![r][k] = "tick"]
  /\ UNCHANGED <<file, config, connection, rng, data, flushed, published, generated, raw, draws,
                 waits>>
  /\ UNCHANGED mainVars

\* Line 186: client.publish(f"mining/{device_id}", data, qos=1).
PublishNow(r, k) ==
  /\ Alive(r)
  /\ k \in Threads(r)
  /\ pc[r][k] = "publish"
  /\ published' = [published EXCEPT ![r] =
                     ClientPublish(@, Topic(all_devices[r][k]), data[r][k], 1)]
  /\ pc' = [pc EXCEPT ![r][k] = "tick"]
  /\ UNCHANGED <<file, config, connection, rng, data, buffer, flushed, generated, raw, draws,
                 waits>>
  /\ UNCHANGED mainVars

\* A loop that goes round without the sleep of line 188.
NoTickWait(w, frequency) == w

\* The sleeps of the iteration once the loop has slept for frequency.
TickWait(w, frequency) == Append(w, [kind |-> "tick", secs |-> frequency])

\* Line 188: time.sleep(config['frequency']), then the loop goes round.
Tick(r, k) ==
  /\ Alive(r)
  /\ k \in Threads(r)
  /\ pc[r][k] = "tick"
  /\ waits' = [waits EXCEPT ![r][k] = TickWait(@, config.frequency)]
  /\ pc' = [pc EXCEPT ![r][k] = "simulate"]
  /\ UNCHANGED <<file, config, connection, rng, data, buffer, flushed, published, generated,
                 raw, draws>>
  /\ UNCHANGED mainVars

\* -------------------------------------------------------- specifications
MainStep(r) ==
  \/ GenerateDevices(r)
  \/ StartThread(r)
  \/ EnterMainLoop(r)
  \/ MainSleep(r)

StopStep(r) ==
  \/ DeliverInterrupt(r)
  \/ LoopStop(r)
  \/ ProcessExit(r)

ThreadStep(r, k, cap) ==
  \/ Simulate(r, k, cap)
  \/ Decide(r, k)
  \/ BeginOutage(r, k)
  \/ FlushOne(r, k)
  \/ FlushDone(r, k)
  \/ PublishNow(r, k)
  \/ Tick(r, k)

Next ==
  \/ MainStep(1)
  \/ StopStep(1)
  \/ \E k \in 1..MaxDevices : ThreadStep(1, k, MaxRecords)

Spec == Init /\ [][Next]_vars

\* The start of the program, up to the main loop.
NextStartup ==
  \/ LoadConfig(1)
  \/ ValidateMode(1)
  \/ SeedRandom(1)
  \/ Connect(1)
  \/ GenerateDevices(1)
  \/ StartThread(1)
  \/ EnterMainLoop(1)

SpecStartup == InitStartup /\ [][NextStartup]_vars

\* The device loops with a device id that has no type among them.
NextForeign ==
  \/ StartThread(1)
  \/ EnterMainLoop(1)
  \/ MainSleep(1)
  \/ \E k \in 1..MaxDevices : ThreadStep(1, k, MaxRecords) \/ Crash(1, k)

SpecForeign == InitForeign /\ [][NextForeign]_vars

\* The steps of a run in normal mode.
NextCalm ==
  \/ MainStep(1)
  \/ \E k \in 1..MaxDevices :
        \/ Simulate(1, k, MaxRecords)
        \/ Decide(1, k)
        \/ PublishNow(1, k)
        \/ Tick(1, k)

SpecCalm == InitCalm /\ [][NextCalm]_vars

\* The registry for every configured count.
NextRegistry == GenerateDevices(1)

SpecRegistry == InitRegistry /\ [][NextRegistry]_vars

\* Run r has generated its cap of records and every loop is back at line 176.
Settled(r, cap) ==
  /\ mainpc[r] = "main_loop"
  /\ \A k \in Threads(r) : pc[r][k] = "simulate"
  /\ Threads(r) = {} \/ TotalGenerated(r) >= cap

RunStep(r, cap) ==
  \/ MainStep(r)
  \/ \E k \in 1..MaxDevices : ThreadStep(r, k, cap)

\* A run that is not interrupted, under fair scheduling: while a thread has
\* a step to take, some thread takes a step.
NextFair == RunStep(1, MaxRecords)

SpecFair == Init /\ [][NextFair]_vars /\ WF_vars(NextFair)

\* Two runs of the program from one configuration and seed.  The runs share
\* nothing, so the order between a step of one and a step of the other
\* changes neither: run 2 moves once run 1 has settled.
NextPair ==
  \/ RunStep(1, MaxPairRecords)
  \/ Settled(1, MaxPairRecords) /\ RunStep(2, MaxPairRecords)

SpecPair == Init /\ [][NextPair]_vars

\* ------------------------------------------------------------ properties
IsPrefix(a, b) == Len(a) <= Len(b) /\ SubSeq(b, 1, Len(a)) = a

Comparable(a, b) == IsPrefix(a, b) \/ IsPrefix(b, a)

Distinct(lst) ==
  \A i, j \in 1..Len(lst) : i # j => lst[i] # lst[j]

\* The publish calls the client has received on the topic of thread k's
\* device, and their payloads.
Calls(r, k) ==
  IF <<"mining/", all_devices[r][k]>> \in DOMAIN published[r]
  THEN published[r][<<"mining/", all_devices[r][k]>>]
  ELSE << >>

Sent(r, k) == [i \in 1..Len(Calls(r, k)) |-> Calls(r, k)[i].payload]

\* The record thread k generated last.
Latest(r, k) == generated[r][k][Len(generated[r][k])]

\* C1: for every device, the records handed to the transport are, in order,
\* the records simulate_data generated for it: what is published is a prefix
\* of what was generated, and during a flush the published records followed
\* by the still buffered ones are exactly the generated ones.
C1_GenerationOrder ==
  \A k \in Threads(1) :
    /\ IsPrefix(Sent(1, k), generated[1][k])
    /\ pc[1][k] = "flush" =>
         Sent(1, k) \o SubSeq(buffer[1][k], flushed[1][k] + 1,
                              Len(buffer[1][k]))
           = generated[1][k]

\* A device has published two different records, the second one out of the
\* outage buffer.
C1_Witness ==
  \E k \in Threads(1) :
    /\ Len(Sent(1, k)) = 2
    /\ Sent(1, k)[1] # Sent(1, k)[2]
    /\ pc[1][k] = "flush"
    /\ flushed[1][k] = 1

\* C2: once the interrupt is delivered to the main thread, no device loop
\* generates a record.
C2_NoRecordAfterStop ==
  [][Interrupted(1) => generated'[1] = generated[1]]_vars

\* C3: in two runs from the same seed and configuration, a device consumes
\* the same sequence of random words whatever the interleaving: the words it
\* has drawn in one run are a prefix of those it has drawn in the other.
C3_DrawsIndependent ==
  \A k \in Threads(1) \cap Threads(2) :
    Comparable(draws[1][k], draws[2][k])

\* C4 as stated: when the loop comes back to simulate_data after a cycle
\* with an outage, the outage sleep is the only sleep of the cycle.
C4_OutageReplacesTick ==
  \A k \in Threads(1) :
    (/\ pc[1][k] = "simulate"
     /\ waits[1][k] # << >>
     /\ waits[1][k][1].kind = "outage") => Len(waits[1][k]) = 1

\* C4 amended: a cycle ends with the sleep of config['frequency'], after
\* the outage sleep of 10..30 when the cycle had an outage: the sleeps of a
\* completed cycle are <<tick>> or <<outage, tick>>, and <<outage>> while
\* the buffer is flushed.
C4_OutageThenTick ==
  \A k \in Threads(1) :
    /\ (pc[1][k] = "simulate" /\ generated[1][k] # << >>) =>
         /\ Len(waits[1][k]) \in {1, 2}
         /\ waits[1][k][Len(waits[1][k])]
              = [kind |-> "tick", secs |-> config.frequency]
         /\ Len(waits[1][k]) = 2 =>
              /\ waits[1][k][1].kind = "outage"
              /\ waits[1][k][1].secs \in 10..30
    /\ pc[1][k] = "flush" =>
         /\ Len(waits[1][k]) = 1
         /\ waits[1][k][1].kind = "outage"
         /\ waits[1][k][1].secs \in 10..30

\* A loop is back at simulate_data after a cycle with an outage.
C4_Witness ==
  \E k \in Threads(1) :
    /\ pc[1][k] = "simulate"
    /\ Len(waits[1][k]) = 2
    /\ waits[1][k][1].kind = "outage"

\* C5: whenever a loop is at its tick sleep or about to generate, its buffer
\* is empty and every record it generated, the flushed ones included, has
\* been published.
C5_BufferEmptyWhenActive ==
  \A k \in Threads(1) :
    pc[1][k] \in {"tick", "simulate"} =>
      /\ buffer[1][k] = << >>
      /\ Sent(1, k) = generated[1][k]

\* A loop is at its tick sleep right after a flush.
C5_Witness ==
  \E k \in Threads(1) :
    /\ pc[1][k] = "tick"
    /\ waits[1][k] # << >>
    /\ waits[1][k][1].kind = "outage"
    /\ flushed[1][k] = 1

\* C6: in normal and fault mode no loop buffers or sleeps for an outage: the
\* buffer is empty in every state, no loop is in the outage branch, every
\* sleep is the tick sleep, and a record is published in the cycle that
\* generated it.
C6_NoBufferingOutsideIntermittent ==
  config.mode \in {"normal", "fault"} =>
    \A k \in Threads(1) :
      /\ buffer[1][k] = << >>
      /\ pc[1][k] \notin {"outage", "flush"}
      /\ \A i \in 1..Len(waits[1][k]) : waits[1][k][i].kind = "tick"
      /\ Len(generated[1][k]) - Len(Sent(1, k)) \in {0, 1}
      /\ pc[1][k] \in {"tick", "simulate"} =>
           Len(Sent(1, k)) = Len(generated[1][k])

\* In fault mode a loop has published a record and sleeps for the tick.
C6_Witness ==
  /\ config.mode = "fault"
  /\ \E k \in Threads(1) :
       /\ pc[1][k] = "simulate"
       /\ Len(Sent(1, k)) >= 1
       /\ waits[1][k] # << >>

\* C7: every call the client receives has the topic mining/{device_id} of
\* the device whose loop generated the payload and asks for qos 1, and a
\* loop buffers only records of its own device.
C7_TopicAndQos ==
  /\ \A topic \in DOMAIN published[1] :
       \A i \in 1..Len(published[1][topic]) :
         /\ published[1][topic][i].qos = 1
         /\ topic = <<"mining/", published[1][topic][i].payload.device_id>>
         /\ \E k \in Threads(1) :
              /\ all_devices[1][k] = published[1][topic][i].payload.device_id
              /\ \E j \in 1..Len(generated[1][k]) :
                   generated[1][k][j] = published[1][topic][i].payload
  /\ \A k \in Threads(1) :
       \A i \in 1..Len(buffer[1][k]) :
         buffer[1][k][i].device_id = all_devices[1][k]

\* Two devices have published, one of them out of its buffer.
C7_Witness ==
  /\ Cardinality(DOMAIN published[1]) = 2
  /\ \E k \in Threads(1) :
       /\ pc[1][k] = "flush"
       /\ flushed[1][k] = 1

\* C8: when the mode is not fault, every record has status "normal" and its
\* metrics are the values the metric rules evaluated to.
C8_NoFaultOutsideFaultMode ==
  config.mode # "fault" =>
    \A k \in Threads(1) :
      /\ \A i \in 1..Len(generated[1][k]) :
           generated[1][k][i].status = "normal"
      /\ generated[1][k] # << >> => Latest(1, k).metrics = raw[1][k]

\* In intermittent mode two loops have generated a record.
C8_Witness ==
  /\ config.mode = "intermittent"
  /\ \E k, l \in Threads(1) :
       /\ k # l
       /\ generated[1][k] # << >>
       /\ generated[1][l] # << >>

\* The status and the metrics of a faulted record of type typ whose metric
\* rules evaluated to m.
Faulted(typ, m) ==
  CASE typ = "vehicle" ->
         [status |-> "fault_overheat",
          metrics |-> [key \in DOMAIN m |->
                         IF key = "engine_temp" THEN m[key] + 50 * Den
                                                ELSE m[key]]]
    [] typ = "fixed" ->
         [status |-> "fault_jam",
          metrics |-> [key \in DOMAIN m |->
                         IF key = "operational_status" THEN "jammed"
                                                       ELSE m[key]]]
    [] typ = "env" ->
         [status |-> "fault_gas",
          metrics |-> [key \in DOMAIN m |->
                         IF key = "methane" THEN m[key] + 10 * Den
                                            ELSE m[key]]]
    [] typ = "personnel" ->
         [status |-> "fault_fall",
          metrics |-> [key \in DOMAIN m |->
                         IF key = "fall_detection" THEN TRUE ELSE m[key]]]

C10_RegistryCounts ==
  mainpc[1] # "generate_devices" =>
    /\ config.num_vehicles >= 0 =>
         Len(vehicles(config)) = config.num_vehicles
    /\ config.num_fixed_assets >= 0 =>
         Len(fixed_assets(config)) = config.num_fixed_assets
    /\ config.num_env_sensors >= 0 =>
         Len(env_sensors(config)) = config.num_env_sensors
    /\ config.num_personnel >= 0 =>
         Len(personnel(config)) = config.num_personnel
    /\ Distinct(vehicles(config)) /\ Distinct(fixed_assets(config))
    /\ Distinct(env_sensors(config)) /\ Distinct(personnel(config))
    /\ all_devices[1] = vehicles(config) \o fixed_assets(config)
                          \o env_sensors(config) \o personnel(config)
    /\ Distinct(all_devices[1])

\* The registry is built for counts the subtypes do not divide, and for 0.
C10_Witness ==
  /\ mainpc[1] = "start_threads"
  /\ config.num_vehicles = 5
  /\ config.num_fixed_assets = 0
  /\ config.num_env_sensors = 7
  /\ config.num_personnel = 2
  /\ Len(all_devices[1]) = 14

\* The ids of lst built from subtype token tok after prefix.
SubtypeCount(lst, prefix, tok) ==
  Cardinality({i \in 1..Len(lst) : IsPrefix(prefix \o tok \o <<"_">>, lst[i])})

\* The subtypes of one category share its ids evenly: no two counts differ
\* by more than one.
Balanced(lst, prefix, toks) ==
  \A a, b \in 1..Len(toks) :
    SubtypeCount(lst, prefix, toks[a]) - SubtypeCount(lst, prefix, toks[b]) <= 1

\* C11: once the registry is built, in each category the numbers of ids of
\* any two subtypes differ by at most one.
C11_RoundRobin ==
  mainpc[1] # "generate_devices" =>
    /\ Balanced(vehicles(config), << >>, VehicleTokens)
    /\ Balanced(fixed_assets(config), << >>, FixedTokens)
    /\ Balanced(env_sensors(config), EnvPrefix, EnvTokens)

\* The category of the id at place i of the combined registry, by the list
\* it came from.
CategoryAt(cfg, i) ==
  IF i <= Len(vehicles(cfg)) THEN "vehicle"
  ELSE IF i <= Len(vehicles(cfg)) + Len(fixed_assets(cfg)) THEN "fixed"
  ELSE IF i <= Len(vehicles(cfg)) + Len(fixed_assets(cfg))
                + Len(env_sensors(cfg)) THEN "env"
  ELSE "personnel"

NegativeCount ==
  /\ DOMAIN config # {}
  /\ \/ config.num_vehicles < 0
     \/ config.num_fixed_assets < 0
     \/ config.num_env_sensors < 0
     \/ config.num_personnel < 0

\* C12: with a negative count the program never gets past the generation of
\* the device ids and starts no device thread.
C12_NegativeCountFails ==
  NegativeCount =>
    /\ mainpc[1] \notin {"start_threads", "main_loop"}
    /\ started[1] = 0

\* The configuration is loaded, sets aws_endpoint and lacks one of the
\* three TLS paths.
IncompleteTls ==
  /\ DOMAIN config # {}
  /\ Truthy(config.aws_endpoint)
  /\ ~(Truthy(config.cert) /\ Truthy(config.key) /\ Truthy(config.ca))

\* C14: with aws_endpoint set and a TLS path missing the program makes no
\* connection and never gets past the client set-up, whatever the broker.
C14_TlsRequiredForAnyBroker ==
  IncompleteTls =>
    /\ connection = NoConnection
    /\ ~client_loop[1]
    /\ mainpc[1] \in {"validate_mode", "seed", "connect", "failed"}

\* C18: once load_config has run, a missing or empty file has given the
\* defaults, and an object has given each key its own value where it has
\* the key and the default where it has not.
C18_DefaultsAndOverrides ==
  mainpc[1] # "load_config" =>
    /\ DOMAIN config = DOMAIN DefaultConfig
    /\ \A key \in DOMAIN DefaultConfig :
         config[key] = IF file.kind = "json" /\ key \in DOMAIN file.obj
                       THEN file.obj[key] ELSE DefaultConfig[key]

\* C15: a device id without a type stops its own loop only: the loop that
\* crashed generated nothing, no loop of a device with a type ever crashes,
\* the process lives on, and every loop of a device with a type is not yet
\* started or at one of the steps of publish_loop, which a live process
\* lets it take.
C15_FailureIsolated ==
  \A k \in Threads(1) :
    /\ pc[1][k] = "crashed" =>
         /\ get_device_type(all_devices[1][k]) = None
         /\ generated[1][k] = << >>
    /\ get_device_type(all_devices[1][k]) # None =>
         /\ pc[1][k] # "crashed"
         /\ mainpc[1] \in {"start_threads", "main_loop"}
         /\ Alive(1)
         /\ pc[1][k] \in {"unstarted", "simulate", "decide", "outage", "flush",
                          "publish", "tick"}

\* The loop of the device without a type has crashed and the loop of
\* another device has published a record and goes on.
C15_Witness ==
  \E k, j \in Threads(1) :
    /\ pc[1][k] = "crashed"
    /\ Len(Sent(1, j)) >= 1
    /\ pc[1][j] = "simulate"
    /\ TotalGenerated(1) < MaxRecords
    /\ Alive(1)

\* C16: after an interrupt the process exits without waiting for a device
\* loop: the exit is enabled as soon as the main thread has ended, wherever
\* the loops are, and once the process has exited no loop takes a step:
\* nothing is generated, flushed or published any more.
C16_ExitStopsLoops ==
  /\ [](mainpc[1] = "exiting" => ENABLED ProcessExit(1))
  /\ [][mainpc[1] = "exited" =>
          /\ threadVars' = threadVars
          /\ published' = published
          /\ rng' = rng]_vars

\* The process has exited while a loop was in its outage sleep, its record
\* still in the buffer.
C16_Witness ==
  /\ mainpc[1] = "exited"
  /\ \E k \in Threads(1) :
       /\ pc[1][k] = "flush"
       /\ flushed[1][k] = 0
       /\ Len(buffer[1][k]) = 1
       /\ Len(Sent(1, k)) < Len(generated[1][k])

\* The numeric value v, a numerator over Den, lies in [lo, hi], bounds in
\* tenths.
Within(v, lo, hi) == lo * (Den \div 10) <= v /\ v <= hi * (Den \div 10)

\* The value v of a metric meets its declared rule.
MeetsRule(rule, v) ==
  CASE rule.kind = "range" -> Within(v, rule.lo, rule.hi)
    [] rule.kind = "choice" ->
         \E i \in 1..Len(rule.options) : rule.options[i] = v
    [] rule.kind = "group" ->
         /\ DOMAIN v = {rule.fields[i].key : i \in 1..Len(rule.fields)}
         /\ \A i \in 1..Len(rule.fields) :
              Within(v[rule.fields[i].key], rule.fields[i].lo,
                     rule.fields[i].hi)

\* C17: with variance 0 in normal mode, every record has exactly the five
\* metrics declared for its type, each numeric one, nested or not, within
\* its declared range and each categorical or boolean one among its options.
C17_WithinDeclaredRanges ==
  (config.variance = 0 /\ config.mode = "normal") =>
    \A k \in Threads(1) :
      \A n \in 1..Len(generated[1][k]) :
        /\ Cardinality(DOMAIN generated[1][k][n].metrics) = 5
        /\ DOMAIN generated[1][k][n].metrics
             = {metric_ranges(generated[1][k][n].type)[i].key : i \in 1..5}
        /\ \A i \in 1..5 :
             MeetsRule(metric_ranges(generated[1][k][n].type)[i].rule,
                       generated[1][k][n].metrics[
                         metric_ranges(generated[1][k][n].type)[i].key])

\* Without variance, two devices of different types have generated a record.
C17_Witness ==
  /\ config.variance = 0
  /\ \E k, j \in Threads(1) :
       /\ generated[1][k] # << >>
       /\ generated[1][j] # << >>
       /\ Latest(1, k).type = "fixed"
       /\ Latest(1, j).type = "personnel"

\* Every record of every loop has been handed to the transport, once.
AllPublishedOnce ==
  /\ mainpc[1] = "main_loop"
  /\ \A k \in Threads(1) :
       /\ Len(Calls(1, k)) = Len(generated[1][k])
       /\ \A n \in 1..Len(generated[1][k]) :
            Calls(1, k)[n].payload = generated[1][k][n]

\* C19: in a run that is not interrupted no record is handed to the
\* transport twice or out of turn (the n-th call of a device carries its
\* n-th record), a record not yet handed over is the latest one, and under
\* fair scheduling every record generated ends up handed over exactly once.
C19_ExactlyOnce ==
  /\ [](\A k \in Threads(1) :
          /\ Len(Calls(1, k)) <= Len(generated[1][k])
          /\ Len(generated[1][k]) - Len(Calls(1, k)) <= 1
          /\ \A n \in 1..Len(Calls(1, k)) :
               Calls(1, k)[n].payload = generated[1][k][n])
  /\ <>[]AllPublishedOnce

\* Two loops have generated records, one slept through an outage, and all
\* their records are handed over.
C19_Witness ==
  /\ AllPublishedOnce
  /\ TotalGenerated(1) = MaxRecords
  /\ \E k, j \in Threads(1) :
       /\ k # j
       /\ pc[1][k] = "simulate"
       /\ Len(waits[1][k]) = 2
       /\ generated[1][j] # << >>

\* C20: the outage buffer of a device never holds more than one record.  It
\* holds a record only in the outage branch, and then exactly the record the
\* cycle generated before the outage began; no record is generated during
\* the wait, and the flush publishes that one record and nothing else.
C20_SingleRecordBuffer ==
  \A k \in Threads(1) :
    /\ Len(buffer[1][k]) <= 1
    /\ buffer[1][k] # << >> => pc[1][k] \in {"outage", "flush"}
    /\ pc[1][k] \in {"outage", "flush"} =>
         /\ buffer[1][k] = <<Latest(1, k)>>
         /\ Len(Calls(1, k)) + Len(buffer[1][k]) =
              Len(generated[1][k])
              + (IF pc[1][k] = "flush" THEN flushed[1][k] ELSE 0)
    /\ pc[1][k] = "flush" /\ flushed[1][k] > 0 =>
         /\ flushed[1][k] = 1
         /\ Calls(1, k)[Len(Calls(1, k))].payload = Latest(1, k)

\* A loop has flushed the one record of its outage, its second record, and
\* has not yet cleared the buffer.
C20_Witness ==
  \E k \in Threads(1) :
    /\ pc[1][k] = "flush"
    /\ flushed[1][k] = 1
    /\ Len(buffer[1][k]) = 1
    /\ Len(generated[1][k]) = 2
====
